---- MODULE Spec2Model ----
(***************************************************************************)
(* The schema of models.py: the tables "users" and "chats", their column   *)
(* constraints (primary keys, UNIQUE, FOREIGN KEY) and the two sides of    *)
(* the User.chats / Chat.owner relationship, together with the insert,     *)
(* update and delete operations the persistence layer runs against them.   *)
(* Every operation is one transaction: it either commits or raises an      *)
(* IntegrityError and leaves both tables as they were.                     *)
(***************************************************************************)
EXTENDS Integers, FiniteSets

VARIABLES users, chats, last

vars == <<users, chats, last>>

(* Bounds of the model: ids are drawn from 1..MaxUserId and 1..MaxChatId. *)
MaxUserId == 2
MaxChatId == 2

(* SQL NULL in an Integer column and in a String/Text column.  No column of
   models.py is declared nullable=False, so every non-key column admits it. *)
NullId == 0
NullStr == "NULL"

UserIds == 1..MaxUserId
ChatIds == 1..MaxChatId
Usernames == {"alice"}
Emails == {"a@x.com"}
Passwords == {"h1"}
Messages == {"hello"}

(* class User: the rows the caller may hand to the persistence layer.  An id
   left unset (NullId) is assigned by the database on insert. *)
UserRows ==
    [id : UserIds \cup {NullId},
     username : Usernames \cup {NullStr},
     email : Emails \cup {NullStr},
     hashed_password : Passwords]

(* class Chat *)
ChatRows ==
    [id : ChatIds \cup {NullId},
     owner_id : UserIds \cup {NullId},
     message : Messages]

(* None where a User or a Chat object is expected. *)
NoUser == [id |-> NullId, username |-> NullStr, email |-> NullStr, hashed_password |-> NullStr]
NoChat == [id |-> NullId, owner_id |-> NullId, message |-> NullStr]

(* The engine behind database.Base enforces the FOREIGN KEY constraints the
   schema declares and reports a violation as an IntegrityError. *)
ForeignKeysEnforced == TRUE

(* User.id = Column(Integer, primary_key=True): not null, unique. *)
UserPKOk(r, others) ==
    /\ r.id # NullId
    /\ \A o \in others : o.id # r.id

(* username declared without unique=True. *)
UsernameUniqueOk_Unchecked(r, others) == TRUE

(* User.username = Column(String, unique=True): UNIQUE compares values, and
   NULL is no value, so any number of rows may leave the column unset. *)
UsernameUniqueOk(r, others) ==
    r.username = NullStr \/ \A o \in others : o.username # r.username

(* email declared without unique=True. *)
EmailUniqueOk_Unchecked(r, others) == TRUE

(* User.email = Column(String, unique=True) *)
EmailUniqueOk(r, others) ==
    r.email = NullStr \/ \A o \in others : o.email # r.email

(* Chat.id declared without primary_key=True: an Integer column that merely
   has to be set. *)
ChatPKOk_NotUnique(r, others) == r.id # NullId

(* Chat.id = Column(Integer, primary_key=True) *)
ChatPKOk(r, others) ==
    /\ r.id # NullId
    /\ \A o \in others : o.id # r.id

(* owner_id declared as a plain Column(Integer), without the ForeignKey. *)
OwnerFKOk_NoForeignKey(r, us) == TRUE

(* Chat.owner_id = Column(Integer, ForeignKey("users.id")): a nullable
   reference; a non-null value must be the id of a row of users. *)
OwnerFKOk(r, us) ==
    \/ ~ForeignKeysEnforced
    \/ r.owner_id = NullId
    \/ \E u \in us : u.id = r.owner_id

(* The rows of chats that reference the users row with id i. *)
Referencing(i, cs) == {c \in cs : c.owner_id = i}

(* User.chats joined on chats.id instead of chats.owner_id. *)
UserChats_JoinOnChatId(u, cs) == {c \in cs : c.id = u.id}

(* User.chats = relationship("Chat", back_populates="owner"): one-to-many,
   loaded from the table cs by the join users.id = chats.owner_id. *)
UserChats(u, cs) == {c \in cs : c.owner_id = u.id}

(* Chat.owner joined on chats.id instead of chats.owner_id. *)
ChatOwner_JoinOnChatId(c, us) ==
    IF \E u \in us : u.id = c.id
    THEN CHOOSE u \in us : u.id = c.id
    ELSE NoUser

(* Chat.owner = relationship("User", back_populates="chats"): many-to-one,
   the row of the table us the foreign key points at, None when there is
   none. *)
ChatOwner(c, us) ==
    IF \E u \in us : u.id = c.owner_id
    THEN CHOOSE u \in us : u.id = c.owner_id
    ELSE NoUser

(* What the caller holds after an operation: which operation it was, whether
   it committed or raised, the User object added by a committed insert (kept
   while the next operation is the insert of a Chat) and the Chat object added
   by a committed insert, each with its id populated. *)
Outcome(op, result, urow, crow) ==
    [op |-> op, result |-> result, user |-> urow, chat |-> crow]

Init ==
    /\ users = {}
    /\ chats = {}
    /\ last = Outcome("none", "ok", NoUser, NoChat)

(* session.add(User(...)); session.commit().  An id left unset is assigned
   by the database: some id no row of users has. *)
InsertUser(r) ==
    \E newid \in (IF r.id = NullId THEN UserIds \ {u.id : u \in users} ELSE {r.id}) :
        LET row == [r EXCEPT !.id = newid] IN
        IF UserPKOk(row, users) /\ UsernameUniqueOk(row, users) /\ EmailUniqueOk(row, users)
        THEN /\ users' = users \cup {row}
             /\ chats' = chats
             /\ last' = Outcome("InsertUser", "ok", row, NoChat)
        ELSE /\ UNCHANGED <<users, chats>>
             /\ last' = Outcome("InsertUser", "IntegrityError", NoUser, NoChat)

(* Assigning username, email or hashed_password of the loaded User t and
   committing; the primary key stays. *)
UpdateUser(t, r) ==
    /\ t \in users
    /\ r.id = t.id
    /\ LET others == users \ {t} IN
       IF UserPKOk(r, others) /\ UsernameUniqueOk(r, others) /\ EmailUniqueOk(r, others)
       THEN /\ users' = others \cup {r}
            /\ chats' = chats
            /\ last' = Outcome("UpdateUser", "ok", NoUser, NoChat)
       ELSE /\ UNCHANGED <<users, chats>>
            /\ last' = Outcome("UpdateUser", "IntegrityError", NoUser, NoChat)

(* User.chats declared with cascade="all, delete": deleting the user deletes
   its chats. *)
DeleteUser_Cascade(t) ==
    /\ t \in users
    /\ users' = users \ {t}
    /\ chats' = chats \ Referencing(t.id, chats)
    /\ last' = Outcome("DeleteUser", "ok", NoUser, NoChat)

(* session.delete(user); session.commit().  The relationship declares no
   cascade="delete", so the unit of work sets owner_id of the user's chats
   to NULL and then deletes the users row. *)
DeleteUser(t) ==
    /\ t \in users
    /\ users' = users \ {t}
    /\ chats' = {IF c.owner_id = t.id THEN [c EXCEPT !.owner_id = NullId] ELSE c : c \in chats}
    /\ last' = Outcome("DeleteUser", "ok", NoUser, NoChat)

(* query(User).filter_by(id=...).delete(): a DELETE statement that bypasses
   the unit of work.  The foreign key declares no ON DELETE action, so the
   database refuses to delete a row that is still referenced. *)
BulkDeleteUser(t) ==
    /\ t \in users
    /\ IF ~ForeignKeysEnforced \/ Referencing(t.id, chats) = {}
       THEN /\ users' = users \ {t}
            /\ chats' = chats
            /\ last' = Outcome("BulkDeleteUser", "ok", NoUser, NoChat)
       ELSE /\ UNCHANGED <<users, chats>>
            /\ last' = Outcome("BulkDeleteUser", "IntegrityError", NoUser, NoChat)

(* session.add(Chat(...)); session.commit() *)
InsertChat(r) ==
    \E newid \in (IF r.id = NullId THEN ChatIds \ {c.id : c \in chats} ELSE {r.id}) :
        LET row == [r EXCEPT !.id = newid] IN
        IF ChatPKOk(row, chats) /\ OwnerFKOk(row, users)
        THEN /\ chats' = chats \cup {row}
             /\ users' = users
             /\ last' = Outcome("InsertChat", "ok",
                                IF last.op = "InsertUser" THEN last.user ELSE NoUser, row)
        ELSE /\ UNCHANGED <<users, chats>>
             /\ last' = Outcome("InsertChat", "IntegrityError", NoUser, NoChat)

(* Assigning owner_id or message of the loaded Chat t and committing; the
   primary key stays. *)
UpdateChat(t, r) ==
    /\ t \in chats
    /\ r.id = t.id
    /\ LET others == chats \ {t} IN
       IF ChatPKOk(r, others) /\ OwnerFKOk(r, users)
       THEN /\ chats' = others \cup {r}
            /\ users' = users
            /\ last' = Outcome("UpdateChat", "ok", NoUser, NoChat)
       ELSE /\ UNCHANGED <<users, chats>>
            /\ last' = Outcome("UpdateChat", "IntegrityError", NoUser, NoChat)

(* session.delete(chat); session.commit() *)
DeleteChat(t) ==
    /\ t \in chats
    /\ chats' = chats \ {t}
    /\ users' = users
    /\ last' = Outcome("DeleteChat", "ok", NoUser, NoChat)

Next ==
    \/ \E r \in UserRows : InsertUser(r)
    \/ \E t \in users, r \in UserRows : UpdateUser(t, r)
    \/ \E t \in users : DeleteUser(t)
    \/ \E t \in users : BulkDeleteUser(t)
    \/ \E r \in ChatRows : InsertChat(r)
    \/ \E t \in chats, r \in ChatRows : UpdateChat(t, r)
    \/ \E t \in chats : DeleteChat(t)

Spec == Init /\ [][Next]_vars

TypeOK ==
    /\ users \subseteq UserRows
    /\ chats \subseteq ChatRows
    /\ last.result \in {"ok", "IntegrityError"}


(***************************************************************************)
(* Properties                                                              *)
(***************************************************************************)

(* C1: every Chat's owner_id is the id of a User that currently exists, also
   after the owning User was deleted and for a Chat created without an
   owner_id. *)
C1_ReferentialIntegrity ==
    \A c \in chats : \E u \in users : u.id = c.owner_id

(* C2, as stated: no two distinct User records have the same username, the
   unset username included. *)
C2_UsernameUniqueIncludingUnset ==
    \A u1 \in users, u2 \in users : u1 # u2 => u1.username # u2.username

(* C2, amended: no two distinct User records have the same username that is
   set; any number of them may leave it unset. *)
C2_UsernameUnique ==
    \A u1 \in users, u2 \in users :
        (u1 # u2 /\ u1.username # NullStr) => u1.username # u2.username

(* Two users, one of which has a username, after a write that would have
   given a second user a username was refused. *)
C2_Witness ==
    /\ Cardinality(users) >= 2
    /\ \E u \in users : u.username \in Usernames
    /\ last.op = "UpdateUser" /\ last.result = "IntegrityError"
    /\ \A u1 \in users, u2 \in users : u1 # u2 => u1.email # u2.email

(* C3, as stated: no two distinct User records have the same email, the
   unset email included. *)
C3_EmailUniqueIncludingUnset ==
    \A u1 \in users, u2 \in users : u1 # u2 => u1.email # u2.email

(* C3, amended: no two distinct User records have the same email that is set;
   any number of them may leave it unset. *)
C3_EmailUnique ==
    \A u1 \in users, u2 \in users :
        (u1 # u2 /\ u1.email # NullStr) => u1.email # u2.email

(* Two users, one of which has an email, after a write that would have given
   a second user an email was refused. *)
C3_Witness ==
    /\ Cardinality(users) >= 2
    /\ \E u \in users : u.email \in Emails
    /\ last.op = "UpdateUser" /\ last.result = "IntegrityError"
    /\ \A u1 \in users, u2 \in users : u1 # u2 => u1.username # u2.username

(* C4: every Chat is in the chats collection of exactly one User: never of
   none, never of two. *)
C4_ExactlyOneOwner ==
    \A c \in chats : Cardinality({u \in users : c \in UserChats(u, chats)}) = 1

(* C5: when a User u has just been created and a Chat c is then created with
   owner_id = u.id, c.owner read back is u, u.chats read back contains c, and
   c.message is the message that was stored. *)
C5_RoundTrip ==
    (/\ last.op = "InsertChat" /\ last.result = "ok"
     /\ last.user # NoUser
     /\ last.chat.owner_id = last.user.id)
    => \E c \in chats :
        /\ c.id = last.chat.id
        /\ c.message = last.chat.message
        /\ ChatOwner(c, users) = last.user
        /\ c \in UserChats(last.user, chats)

(* A user "alice" was created and then a chat "hello" owned by her, while
   another user and another chat exist. *)
C5_Witness ==
    /\ last.op = "InsertChat" /\ last.result = "ok"
    /\ last.user.username = "alice" /\ last.user.email = "a@x.com"
    /\ last.chat.owner_id = last.user.id
    /\ last.chat.message = "hello"
    /\ last.chat.id # last.user.id
    /\ Cardinality(users) = 2 /\ Cardinality(chats) = 2

(* The write was refused: an IntegrityError, and both tables as before. *)
Refused ==
    /\ last'.result = "IntegrityError"
    /\ users' = users
    /\ chats' = chats

(* The row r has a username or an email that a row of others has. *)
DuplicatesUser(r, others) ==
    \E o \in others :
        \/ r.username # NullStr /\ o.username = r.username
        \/ r.email # NullStr /\ o.email = r.email

(* C6: inserting a User, or updating one, so that its username or email
   duplicates that of another existing User raises an IntegrityError and
   leaves the users and chats tables as they were.  (An insert or update of a
   User is a step that leaves its name in last.op.) *)
C6_DuplicateUserRefused ==
    [][/\ last'.op = "InsertUser" =>
            \A r \in UserRows :
                (DuplicatesUser(r, users) /\ InsertUser(r)) => Refused
       /\ last'.op = "UpdateUser" =>
            \A t \in users : \A r \in {x \in UserRows : x.id = t.id} :
                (DuplicatesUser(r, users \ {t}) /\ UpdateUser(t, r)) => Refused]_vars

(* An update was refused; an update keeps the primary key, so only a
   duplicate username or email refuses it.  A chat exists as well. *)
C6_Witness ==
    /\ last.op = "UpdateUser" /\ last.result = "IntegrityError"
    /\ Cardinality(users) = 2
    /\ chats # {}

(* The row r references a user that is not in us. *)
Dangling(r, us) ==
    r.owner_id # NullId /\ \A u \in us : u.id # r.owner_id

(* C7: inserting a Chat, or updating one, with an owner_id that is the id of
   no existing User raises an IntegrityError and leaves the users and chats
   tables as they were.  (An insert or update of a Chat is a step that leaves
   its name in last.op.) *)
C7_DanglingOwnerRefused ==
    [][/\ last'.op = "InsertChat" =>
            \A r \in ChatRows :
                (Dangling(r, users) /\ InsertChat(r)) => Refused
       /\ last'.op = "UpdateChat" =>
            \A t \in chats : \A r \in {x \in ChatRows : x.id = t.id} :
                (Dangling(r, users) /\ UpdateChat(t, r)) => Refused]_vars

(* An update of a chat was refused; an update keeps the primary key, so only
   a dangling owner_id refuses it. *)
C7_Witness ==
    /\ last.op = "UpdateChat" /\ last.result = "IntegrityError"
    /\ users # {}
    /\ \E c \in chats : c.owner_id # NullId

(* C8: c in u.chats iff c.owner is u iff c.owner_id = u.id; u.chats is the
   set of Chats whose owner_id is u.id, and no Chat is in the chats of two
   Users. *)
C8_RelationshipAgrees ==
    /\ \A u \in users, c \in chats :
        /\ (c \in UserChats(u, chats)) <=> (ChatOwner(c, users) = u)
        /\ (ChatOwner(c, users) = u) <=> (c.owner_id = u.id)
    /\ \A u \in users : UserChats(u, chats) = Referencing(u.id, chats)
    /\ \A u1 \in users, u2 \in users :
        u1 # u2 => UserChats(u1, chats) \cap UserChats(u2, chats) = {}

(* Two users each own a chat whose id is not the owner's id. *)
C8_Witness ==
    /\ Cardinality(users) = 2
    /\ \A u \in users : \E c \in UserChats(u, chats) : c.id # u.id

(* C9: no two User rows share an id, no two Chat rows share an id, and every
   stored row has an id. *)
C9_PrimaryKeys ==
    /\ \A u1 \in users, u2 \in users : u1.id = u2.id => u1 = u2
    /\ \A c1 \in chats, c2 \in chats : c1.id = c2.id => c1 = c2
    /\ \A u \in users : u.id \in UserIds
    /\ \A c \in chats : c.id \in ChatIds

(* Both tables hold two rows, a User id coincides with a Chat id, and an
   insert has just been refused. *)
C9_Witness ==
    /\ Cardinality(users) = 2 /\ Cardinality(chats) = 2
    /\ \E u \in users, c \in chats : u.id = c.id
    /\ last.op = "InsertChat" /\ last.result = "IntegrityError"

(* C10: a delete of the User t removes no Chat: the Chat ids and each Chat's
   message are as before, only the owner link of t's Chats may change, and
   every other User row is unchanged. *)
C10_DeleteUserKeepsChats ==
    [][\A t \in users :
        (DeleteUser(t) \/ BulkDeleteUser(t)) =>
            /\ {c.id : c \in chats'} = {c.id : c \in chats}
            /\ \A c \in chats : \E d \in chats' :
                /\ d.id = c.id
                /\ d.message = c.message
                /\ (d.owner_id = c.owner_id \/ c.owner_id = t.id)
            /\ users \ {t} \subseteq users'
            /\ users' \subseteq users]_vars

(* A user that owned a chat has just been deleted: the chat is still there,
   without an owner, next to a chat of the remaining user. *)
C10_Witness ==
    /\ last.op = "DeleteUser"
    /\ Cardinality(users) = 1
    /\ Cardinality(chats) = 2
    /\ \E c \in chats : c.owner_id = NullId
    /\ \E c \in chats : c.owner_id # NullId
====
